---------------------------- MODULE Spec2Model ----------------------------
(***************************************************************************)
(* ROBDD builder: the tokenizer and precedence-climbing parser of          *)
(* parser.py and the ROBDDEngine of BDD.py.                                *)
(*                                                                         *)
(* Three specifications share the module:                                  *)
(*   Spec       one ROBDDEngine instance and a sequence of build_robdd     *)
(*              calls on it;                                               *)
(*   SpecParse  parse_pysmt's parser applied to a token list;              *)
(*   SpecLex    tokenize applied to an input text.                         *)
(***************************************************************************)
EXTENDS Integers, Sequences, FiniteSets, TLC

VARIABLES
    nodes,          \* ROBDDEngine.nodes: id -> (var, low, high)
    unique_table,   \* ROBDDEngine.unique_table: (var, low, high) -> id
    next_id,        \* ROBDDEngine.next_id
    calls,          \* number of build_robdd calls made on the engine
    lastF,          \* formula argument of the latest build_robdd call
    lastOrd,        \* ordering argument of the latest build_robdd call
    lastRoot,       \* what the latest build_robdd call returned
    outcome,        \* how the latest call ended: "returned" or "OrderingError"
    exhausted,      \* the latest call ran line 84 (empty ordering, residual not constant)
    before,         \* the engine's tables as they were when the latest call began
    text,           \* the input string of tokenize / parse_pysmt, a sequence of characters
    toks,           \* parse_pysmt's token list
    result,         \* what tokenize / parse_pysmt returned or raised
    pc              \* "start" before the call, "done" after it

engineVars == <<nodes, unique_table, next_id, calls, lastF, lastOrd, lastRoot,
                outcome, exhausted, before>>

parserVars == <<text, toks, result, pc>>

vars == <<engineVars, parserVars>>

-----------------------------------------------------------------------------
(* Bounds *)

MaxBuilds == 2      \* build_robdd calls on one engine
MaxToks == 5        \* tokens in an input of parse_pysmt
MaxText == 4        \* characters in an input of tokenize

-----------------------------------------------------------------------------
(* Formula trees (pysmt FNode as used by parser.py and BDD.py) *)

Bool(b) == [op |-> "lit", val |-> b]
Symbol(n) == [op |-> "var", name |-> n]
Not(e) == [op |-> "not", arg |-> e]
And(l, r) == [op |-> "and", l |-> l, r |-> r]
Or(l, r) == [op |-> "or", l |-> l, r |-> r]
Xor(l, r) == [op |-> "xor", l |-> l, r |-> r]
Implies(l, r) == [op |-> "implies", l |-> l, r |-> r]
Iff(l, r) == [op |-> "iff", l |-> l, r |-> r]

BinOps == {"and", "or", "xor", "implies", "iff"}

Mk(o, l, r) == [op |-> o, l |-> l, r |-> r]

is_true(f) == f.op = "lit" /\ f.val = TRUE
is_false(f) == f.op = "lit" /\ f.val = FALSE
is_bool_constant(f) == f.op = "lit"

(* The truth value of a formula under an assignment (the set of variables   *)
(* that are true).                                                          *)
RECURSIVE Eval(_, _)
Eval(f, asg) ==
    CASE f.op = "lit" -> f.val
      [] f.op = "var" -> f.name \in asg
      [] f.op = "not" -> ~Eval(f.arg, asg)
      [] f.op = "and" -> Eval(f.l, asg) /\ Eval(f.r, asg)
      [] f.op = "or" -> Eval(f.l, asg) \/ Eval(f.r, asg)
      [] f.op = "xor" -> Eval(f.l, asg) # Eval(f.r, asg)
      [] f.op = "implies" -> Eval(f.l, asg) => Eval(f.r, asg)
      [] f.op = "iff" -> Eval(f.l, asg) = Eval(f.r, asg)

RECURSIVE get_free_variables(_)
get_free_variables(f) ==
    CASE f.op = "lit" -> {}
      [] f.op = "var" -> {f.name}
      [] f.op = "not" -> get_free_variables(f.arg)
      [] OTHER -> get_free_variables(f.l) \cup get_free_variables(f.r)

(* formula.substitute({Symbol(v): TRUE()/FALSE()}): every occurrence of v   *)
(* replaced by the literal, nothing else changed, nothing simplified.       *)
RECURSIVE substitute(_, _, _)
substitute(f, v, b) ==
    CASE f.op = "lit" -> f
      [] f.op = "var" -> IF f.name = v THEN Bool(b) ELSE f
      [] f.op = "not" -> Not(substitute(f.arg, v, b))
      [] OTHER -> Mk(f.op, substitute(f.l, v, b), substitute(f.r, v, b))

(* formula.simplify(): one bottom-up pass. Constant operands fold; a double *)
(* negation cancels; two syntactically equal operands, and for & and | an   *)
(* operand with its own negation, fold as well. Nothing else is decided: a  *)
(* tautology such as (a -> b) | (b -> a) stays a non-constant tree.         *)
walk_not(x) ==
    IF is_bool_constant(x) THEN Bool(~x.val)
    ELSE IF x.op = "not" THEN x.arg
    ELSE Not(x)

walk_and(l, r) ==
    IF l = r THEN l
    ELSE IF is_false(l) \/ is_false(r) THEN Bool(FALSE)
    ELSE IF is_true(l) THEN r
    ELSE IF is_true(r) THEN l
    ELSE IF walk_not(r) = l THEN Bool(FALSE)
    ELSE And(l, r)

walk_or(l, r) ==
    IF l = r THEN l
    ELSE IF is_true(l) \/ is_true(r) THEN Bool(TRUE)
    ELSE IF is_false(l) THEN r
    ELSE IF is_false(r) THEN l
    ELSE IF walk_not(r) = l THEN Bool(TRUE)
    ELSE Or(l, r)

walk_iff(l, r) ==
    IF is_bool_constant(l) /\ is_bool_constant(r) THEN Bool(l.val = r.val)
    ELSE IF is_bool_constant(l) THEN (IF l.val THEN r ELSE walk_not(r))
    ELSE IF is_bool_constant(r) THEN (IF r.val THEN l ELSE walk_not(l))
    ELSE IF l = r THEN Bool(TRUE)
    ELSE Iff(l, r)

walk_xor(l, r) ==
    IF is_bool_constant(l) /\ is_bool_constant(r) THEN Bool(l.val # r.val)
    ELSE IF is_bool_constant(l) THEN (IF l.val THEN walk_not(r) ELSE r)
    ELSE IF is_bool_constant(r) THEN (IF r.val THEN walk_not(l) ELSE l)
    ELSE IF l = r THEN Bool(FALSE)
    ELSE Xor(l, r)

walk_implies(l, r) ==
    IF is_bool_constant(l) THEN (IF l.val THEN r ELSE Bool(TRUE))
    ELSE IF is_bool_constant(r) THEN (IF r.val THEN Bool(TRUE) ELSE walk_not(l))
    ELSE IF l = r THEN Bool(TRUE)
    ELSE Implies(l, r)

RECURSIVE simplify(_)
simplify(f) ==
    CASE f.op = "lit" -> f
      [] f.op = "var" -> f
      [] f.op = "not" -> walk_not(simplify(f.arg))
      [] f.op = "and" -> walk_and(simplify(f.l), simplify(f.r))
      [] f.op = "or" -> walk_or(simplify(f.l), simplify(f.r))
      [] f.op = "xor" -> walk_xor(simplify(f.l), simplify(f.r))
      [] f.op = "implies" -> walk_implies(simplify(f.l), simplify(f.r))
      [] f.op = "iff" -> walk_iff(simplify(f.l), simplify(f.r))

-----------------------------------------------------------------------------
(* ROBDDEngine *)

None == "None"      \* the variable slot of a terminal
NoChild == -1       \* the low/high slots of a terminal (None)

Terminal == [var |-> None, low |-> NoChild, high |-> NoChild]

(* An engine value: the three fields of a ROBDDEngine instance. *)
Engine(n, u, i) == [nodes |-> n, unique_table |-> u, next_id |-> i]

(* ROBDDEngine.__init__ *)
NewEngine == Engine((0 :> Terminal) @@ (1 :> Terminal), <<>>, 2)

(* _get_node with the two children stored the wrong way round. *)
_get_node_swapped(eng, var_name, low, high) ==
    IF low = high THEN [eng |-> eng, id |-> low]
    ELSE LET key == <<var_name, high, low>> IN
         IF key \in DOMAIN eng.unique_table
         THEN [eng |-> eng, id |-> eng.unique_table[key]]
         ELSE LET node_id == eng.next_id IN
              [eng |-> Engine(eng.nodes @@ (node_id :> [var |-> var_name, low |-> high, high |-> low]),
                              eng.unique_table @@ (key :> node_id),
                              eng.next_id + 1),
               id |-> node_id]

(* _get_node without rule 1 (the low = high test). *)
_get_node_noelim(eng, var_name, low, high) ==
    LET key == <<var_name, low, high>> IN
    IF key \in DOMAIN eng.unique_table
    THEN [eng |-> eng, id |-> eng.unique_table[key]]
    ELSE LET node_id == eng.next_id IN
         [eng |-> Engine(eng.nodes @@ (node_id :> [var |-> var_name, low |-> low, high |-> high]),
                         eng.unique_table @@ (key :> node_id),
                         eng.next_id + 1),
          id |-> node_id]

(* _get_node without rule 2 (the uniqueness-table lookup): a node is        *)
(* allocated every time, and the table entry overwritten.                   *)
_get_node_noshare(eng, var_name, low, high) ==
    IF low = high THEN [eng |-> eng, id |-> low]
    ELSE LET key == <<var_name, low, high>>
             node_id == eng.next_id
         IN [eng |-> Engine(eng.nodes @@ (node_id :> [var |-> var_name, low |-> low, high |-> high]),
                            (key :> node_id) @@ eng.unique_table,
                            eng.next_id + 1),
             id |-> node_id]

(* ROBDDEngine._get_node: the engine after the call and the id returned. *)
_get_node(eng, var_name, low, high) ==
    IF low = high THEN [eng |-> eng, id |-> low]
    ELSE LET key == <<var_name, low, high>> IN
         IF key \in DOMAIN eng.unique_table
         THEN [eng |-> eng, id |-> eng.unique_table[key]]
         ELSE LET node_id == eng.next_id IN
              [eng |-> Engine(eng.nodes @@ (node_id :> [var |-> var_name, low |-> low, high |-> high]),
                              eng.unique_table @@ (key :> node_id),
                              eng.next_id + 1),
               id |-> node_id]

(* build_robdd taking the variable from the end of the ordering            *)
(* (ordering.pop()) instead of from its head.                               *)
RECURSIVE build_robdd_pop(_, _, _)
build_robdd_pop(eng, formula, ordering) ==
    LET simplified == simplify(formula) IN
    IF is_true(simplified) THEN [eng |-> eng, id |-> 1, exhausted |-> FALSE]
    ELSE IF is_false(simplified) THEN [eng |-> eng, id |-> 0, exhausted |-> FALSE]
    ELSE IF ordering = <<>>
    THEN [eng |-> eng, id |-> IF is_true(simplified) THEN 1 ELSE 0, exhausted |-> TRUE]
    ELSE LET var_name == ordering[Len(ordering)]
             rest == SubSeq(ordering, 1, Len(ordering) - 1)
             low == build_robdd_pop(eng, substitute(formula, var_name, FALSE), rest)
             high == build_robdd_pop(low.eng, substitute(formula, var_name, TRUE), rest)
             got == _get_node(high.eng, var_name, low.id, high.id)
         IN [eng |-> got.eng, id |-> got.id, exhausted |-> low.exhausted \/ high.exhausted]

(* ROBDDEngine.build_robdd: the engine after the call, the id returned, and *)
(* whether the call (or one it made) went through line 84 with a residual   *)
(* that is not a constant.                                                  *)
RECURSIVE build_robdd(_, _, _)
build_robdd(eng, formula, ordering) ==
    LET simplified == simplify(formula) IN
    IF is_true(simplified) THEN [eng |-> eng, id |-> 1, exhausted |-> FALSE]
    ELSE IF is_false(simplified) THEN [eng |-> eng, id |-> 0, exhausted |-> FALSE]
    ELSE IF ordering = <<>>
    THEN [eng |-> eng, id |-> IF is_true(simplified) THEN 1 ELSE 0, exhausted |-> TRUE]
    ELSE LET var_name == ordering[1]
             low == build_robdd(eng, substitute(formula, var_name, FALSE), Tail(ordering))
             high == build_robdd(low.eng, substitute(formula, var_name, TRUE), Tail(ordering))
             got == _get_node(high.eng, var_name, low.id, high.id)
         IN [eng |-> got.eng, id |-> got.id, exhausted |-> low.exhausted \/ high.exhausted]

-----------------------------------------------------------------------------
(* Inputs of build_robdd *)

Vars == {"a", "b", "c"}

va == Symbol("a")
vb == Symbol("b")
vc == Symbol("c")

Formulas ==
    {Bool(TRUE), Bool(FALSE), va, vb, Not(va), Not(vb)}
    \cup {Mk(o, va, y) : o \in BinOps, y \in {va, Not(va), vb}}
    \cup {And(Not(va), vb), Or(Not(va), vb), And(va, Not(vb)),
          Not(And(va, vb)), Not(Or(va, vb)),
          Or(Implies(va, vb), Implies(vb, va)),
          Xor(Xor(va, vb), vc), And(Or(va, vb), vc),
          Or(And(va, Not(vc)), Xor(vb, vc))}

(* Orderings: empty, partial, complete, with a repeated variable. *)
Orderings ==
    {<<>>, <<"a">>, <<"a", "b">>, <<"b", "a">>, <<"a", "a">>,
     <<"a", "b", "c">>, <<"c", "a", "b">>}

-----------------------------------------------------------------------------
(* One engine, any sequence of builds *)

NoResult == [ok |-> FALSE, error |-> "not called"]

ParserUnused ==
    /\ text = <<>>
    /\ toks = <<>>
    /\ result = NoResult
    /\ pc = "unused"

EngineUnused ==
    /\ nodes = NewEngine.nodes
    /\ unique_table = NewEngine.unique_table
    /\ next_id = NewEngine.next_id
    /\ calls = 0
    /\ lastF = Bool(TRUE)
    /\ lastOrd = <<>>
    /\ lastRoot = 1
    /\ outcome = "returned"
    /\ exhausted = FALSE
    /\ before = NewEngine

Init ==
    /\ ParserUnused
    /\ nodes = NewEngine.nodes
    /\ unique_table = NewEngine.unique_table
    /\ next_id = NewEngine.next_id
    /\ calls = 0
    /\ lastF = Bool(TRUE)
    /\ lastOrd = <<>>
    /\ lastRoot = 1
    /\ outcome = "returned"
    /\ exhausted = FALSE
    /\ before = NewEngine

BuildRobdd(formula, ordering) ==
    /\ calls < MaxBuilds
    /\ LET eng == Engine(nodes, unique_table, next_id)
           r == build_robdd(eng, formula, ordering)
       IN /\ nodes' = r.eng.nodes
          /\ unique_table' = r.eng.unique_table
          /\ next_id' = r.eng.next_id
          /\ lastRoot' = r.id
          /\ exhausted' = r.exhausted
          /\ before' = eng
    /\ outcome' = "returned"
    /\ calls' = calls + 1
    /\ lastF' = formula
    /\ lastOrd' = ordering
    /\ UNCHANGED parserVars

Next == \E formula \in Formulas, ordering \in Orderings : BuildRobdd(formula, ordering)

Spec == Init /\ [][Next]_vars

-----------------------------------------------------------------------------
(* Reading a diagram *)

Range(seq) == {seq[i] : i \in DOMAIN seq}

DupFree(seq) == \A i, j \in DOMAIN seq : i # j => seq[i] # seq[j]

(* The latest call's ordering is duplicate-free and holds every free        *)
(* variable of its formula.                                                 *)
Covers == DupFree(lastOrd) /\ get_free_variables(lastF) \subseteq Range(lastOrd)

Assignments == SUBSET Vars

(* The terminal reached from id under an assignment: low when the tested    *)
(* variable is false, high when it is true.                                 *)
RECURSIVE Walk(_, _)
Walk(id, asg) ==
    IF id \in {0, 1} THEN id
    ELSE Walk(IF nodes[id].var \in asg THEN nodes[id].high ELSE nodes[id].low, asg)

Denotes(id, f) == \A asg \in Assignments : Walk(id, asg) = (IF Eval(f, asg) THEN 1 ELSE 0)

Equivalent(f, g) == \A asg \in Assignments : Eval(f, asg) = Eval(g, asg)

ConstantTrue(f) == \A asg \in Assignments : Eval(f, asg)
ConstantFalse(f) == \A asg \in Assignments : ~Eval(f, asg)

(* Every test below id is of a variable at a position of ord greater than   *)
(* after.                                                                   *)
RECURSIVE OrderedFrom(_, _, _)
OrderedFrom(id, ord, after) ==
    \/ id \in {0, 1}
    \/ \E p \in (after + 1)..Len(ord) :
          /\ ord[p] = nodes[id].var
          /\ OrderedFrom(nodes[id].low, ord, p)
          /\ OrderedFrom(nodes[id].high, ord, p)

InternalIds == {id \in DOMAIN nodes : id > 1}

KeyOf(n) == <<n.var, n.low, n.high>>

-----------------------------------------------------------------------------
(* Claims about the engine, checked under Spec *)

\* C1: for a duplicate-free ordering holding every free variable of the
\* formula, the root build_robdd returns denotes the formula: under every
\* assignment the walk from the root ends at terminal 1 exactly when the
\* formula is true. Earlier builds on the engine do not change this.
C1_RootDenotesFormula ==
    (calls > 0 /\ Covers) => Denotes(lastRoot, lastF)

\* The second build on an engine that already holds nodes returns a fresh
\* root testing both variables.
C1_Witness ==
    /\ calls >= 2 /\ Covers
    /\ before.next_id > 2
    /\ lastRoot >= before.next_id
    /\ (nodes[lastRoot].low > 1 \/ nodes[lastRoot].high > 1)

\* C2: a build that reaches an empty ordering with a residual formula that
\* is not a constant ends with an ordering error, not with a terminal id.
C2_ExhaustedOrderingFails ==
    (calls > 0 /\ exhausted) => outcome = "OrderingError"

\* C3: two builds of logically equivalent formulas under the same ordering
\* on one engine return the same root id (here: one build right after the
\* other).
C3_EquivalentFormulasSameRoot ==
    [][(calls >= 1 /\ calls' = calls + 1 /\ lastOrd' = lastOrd /\ Equivalent(lastF, lastF'))
          => lastRoot' = lastRoot]_vars

\* C4 (I1, reduction): no stored node with id > 1 has low = high, and no key
\* of the uniqueness table has low = high.
C4_Reduction ==
    /\ \A id \in InternalIds : nodes[id].low # nodes[id].high
    /\ \A key \in DOMAIN unique_table : key[2] # key[3]

\* Several nodes are stored and the latest build dropped a redundant test:
\* the formula b under the ordering a, b.
C4_Witness ==
    /\ calls >= 2
    /\ Cardinality(InternalIds) >= 3
    /\ lastF = vb /\ lastOrd = <<"a", "b">>
    /\ nodes[lastRoot].var = "b"

\* C5 (I2, uniqueness): no two distinct internal ids carry the same
\* (variable, low, high) triple; the uniqueness table and the node table
\* restricted to ids > 1 are inverse mappings of each other.
C5_Uniqueness ==
    /\ \A i, j \in InternalIds : i # j => nodes[i] # nodes[j]
    /\ \A id \in InternalIds :
          KeyOf(nodes[id]) \in DOMAIN unique_table /\ unique_table[KeyOf(nodes[id])] = id
    /\ \A key \in DOMAIN unique_table :
          unique_table[key] \in InternalIds /\ KeyOf(nodes[unique_table[key]]) = key

\* The latest build found its whole diagram in the tables: it returned an
\* internal node with children and created nothing.
C5_Witness ==
    /\ calls >= 2
    /\ lastRoot > 1
    /\ (nodes[lastRoot].low > 1 \/ nodes[lastRoot].high > 1)
    /\ next_id = before.next_id

\* C6 (I5, ordering): after a build with a duplicate-free ordering, every
\* node reachable from the root tests a variable of the ordering, and along
\* every path the positions of the tested variables strictly increase.
C6_Ordered ==
    (calls > 0 /\ DupFree(lastOrd)) => OrderedFrom(lastRoot, lastOrd, 0)

\* The build under the ordering a, b returns as its root a node that
\* an earlier build under the ordering b, a created below a test of b.
C6_Witness ==
    /\ calls >= 2
    /\ lastOrd = <<"a", "b">>
    /\ lastRoot > 1 /\ lastRoot < before.next_id
    /\ \E id \in DOMAIN before.nodes :
          /\ before.nodes[id].var = "b"
          /\ lastRoot \in {before.nodes[id].low, before.nodes[id].high}

\* C7: a build of a formula that denotes a constant, with an ordering
\* holding its free variables, returns 1 (constant true) or 0 (constant
\* false) and leaves the node table, the uniqueness table and next_id as
\* they were; ids 0 and 1 never carry a variable or children.
C7_ConstantsCreateNothing ==
    /\ nodes[0] = Terminal /\ nodes[1] = Terminal
    /\ (calls > 0 /\ Covers /\ ConstantTrue(lastF))
          => (lastRoot = 1 /\ Engine(nodes, unique_table, next_id) = before)
    /\ (calls > 0 /\ Covers /\ ConstantFalse(lastF))
          => (lastRoot = 0 /\ Engine(nodes, unique_table, next_id) = before)

\* A tautology the simplifier does not recognise, built on an engine that
\* already holds nodes.
C7_Witness ==
    /\ calls >= 2
    /\ before.next_id > 2
    /\ lastF = Or(Implies(va, vb), Implies(vb, va))
    /\ lastOrd = <<"a", "b">>
    /\ lastRoot = 1

-----------------------------------------------------------------------------
(* parser.py: tokenize *)

(* A text is a sequence of one-character strings; positions are Python's    *)
(* (from 0), so character i of s is s[i + 1].                               *)

Letters == {"a", "b"}
Digits == {"1"}

isalpha(ch) == ch \in Letters
isalnum(ch) == ch \in Letters \cup Digits

(* s.replace(" ", "") *)
remove_spaces(s) == SelectSeq(s, LAMBDA ch : ch # " ")

(* s.startswith(prefix, i) *)
startswith(s, prefix, i) ==
    /\ i + Len(prefix) <= Len(s)
    /\ \A k \in 1..Len(prefix) : s[i + k] = prefix[k]

(* s[i:j] as one string *)
RECURSIVE slice(_, _, _)
slice(s, i, j) ==
    IF i >= j \/ i >= Len(s) THEN ""
    ELSE s[i + 1] \o slice(s, i + 1, j)

(* The inner while loop of lines 24-25: where the identifier that began     *)
(* before j ends.                                                           *)
RECURSIVE ident_end(_, _)
ident_end(s, j) ==
    IF j < Len(s) /\ (isalnum(s[j + 1]) \/ s[j + 1] = "_")
    THEN ident_end(s, j + 1)
    ELSE j

LexOk(tokens) == [ok |-> TRUE, tokens |-> tokens]

(* ValueError(f"Unexpected character at {i}: {s[i:i+10]}") *)
LexError(s, i) == [ok |-> FALSE, error |-> "Unexpected character", at |-> i, near |-> slice(s, i, i + 10)]

(* The while loop of lines 19-42, from position i with the tokens so far.   *)
RECURSIVE scan(_, _, _)
scan(s, i, tokens) ==
    IF ~(i < Len(s)) THEN LexOk(tokens)
    ELSE LET ch == s[i + 1] IN
         IF isalpha(ch) \/ ch = "_"
         THEN LET j == ident_end(s, i + 1) IN scan(s, j, Append(tokens, slice(s, i, j)))
         ELSE IF ch \in {"(", ")", "!", "&", "|", "^"}
         THEN scan(s, i + 1, Append(tokens, ch))
         ELSE IF startswith(s, <<"<", "-", ">">>, i)
         THEN scan(s, i + 3, Append(tokens, "<->"))
         ELSE IF startswith(s, <<"-", ">">>, i)
         THEN scan(s, i + 2, Append(tokens, "->"))
         ELSE LexError(s, i)

tokenize(s) == scan(remove_spaces(s), 0, <<>>)

-----------------------------------------------------------------------------
(* parser.py: PRECEDENCE, parse_pysmt, _parse_expr *)

PRECEDENCE == ("<->" :> 1) @@ ("->" :> 2) @@ ("|" :> 3) @@ ("^" :> 4) @@ ("&" :> 5)

ParseOk(node, i) == [ok |-> TRUE, node |-> node, i |-> i]
ParseError(msg) == [ok |-> FALSE, error |-> msg]

(* Lines 110-121: the node an operator builds. *)
apply_op(op, lhs, rhs) ==
    CASE op = "&" -> And(lhs, rhs)
      [] op = "|" -> Or(lhs, rhs)
      [] op = "^" -> Xor(lhs, rhs)
      [] op = "->" -> Implies(lhs, rhs)
      [] op = "<->" -> Iff(lhs, rhs)

(* Line 106 with the operator's precedence always raised by one (every      *)
(* operator left-associative).                                              *)
next_min_prec_left(op) == PRECEDENCE[op] + 1

(* Line 106: the minimum precedence of the right operand. *)
next_min_prec(op) == PRECEDENCE[op] + (IF op \in {"->", "<->"} THEN 0 ELSE 1)

(* _parse_expr(toks, i, min_prec): lines 69-89 are the prefix part, and     *)
(* infix_loop is the while loop of lines 92-123 with the return of line     *)
(* 125, entered with the current lhs and position.                          *)
RECURSIVE _parse_expr(_, _, _)
RECURSIVE infix_loop(_, _, _, _)
_parse_expr(tokens, i, min_prec) ==
    IF i >= Len(tokens) THEN ParseError("Unexpected end of input")
    ELSE LET tok == tokens[i + 1] IN
         IF tok = "!"
         THEN LET r == _parse_expr(tokens, i + 1, PRECEDENCE["&"] + 1) IN
              IF ~r.ok THEN r ELSE infix_loop(tokens, Not(r.node), r.i, min_prec)
         ELSE IF tok = "("
         THEN LET r == _parse_expr(tokens, i + 1, 0) IN
              IF ~r.ok THEN r
              ELSE IF r.i >= Len(tokens) \/ tokens[r.i + 1] # ")" THEN ParseError("Missing ')'")
              ELSE infix_loop(tokens, r.node, r.i + 1, min_prec)
         ELSE infix_loop(tokens, Symbol(tok), i + 1, min_prec)

infix_loop(tokens, lhs, i, min_prec) ==
    IF ~(i < Len(tokens)) THEN ParseOk(lhs, i)
    ELSE LET op == tokens[i + 1] IN
         IF op = ")" \/ op = "!" THEN ParseOk(lhs, i)
         ELSE IF op \notin DOMAIN PRECEDENCE THEN ParseOk(lhs, i)
         ELSE IF PRECEDENCE[op] < min_prec THEN ParseOk(lhs, i)
         ELSE LET r == _parse_expr(tokens, i + 1, next_min_prec(op)) IN
              IF ~r.ok THEN r
              ELSE infix_loop(tokens, apply_op(op, lhs, r.node), r.i, min_prec)

(* parse_pysmt, lines 61-65, on the token list. *)
parse_tokens(tokens) ==
    LET r == _parse_expr(tokens, 0, 0) IN
    IF ~r.ok THEN r
    ELSE IF r.i # Len(tokens) THEN ParseError("Trailing tokens")
    ELSE [ok |-> TRUE, node |-> r.node]

(* parse_pysmt(formula): a lex error of tokenize propagates. *)
parse_pysmt(formula) ==
    LET t == tokenize(formula) IN
    IF ~t.ok THEN t ELSE parse_tokens(t.tokens)

-----------------------------------------------------------------------------
(* tokenize applied to a text *)

Chars == {"a", "_", "1", " ", "\t", "\n", "(", "&", "-", ">", "<", "$"}

InitLex ==
    /\ EngineUnused
    /\ \E n \in 0..MaxText : text \in [1..n -> Chars]
    /\ toks = <<>>
    /\ result = NoResult
    /\ pc = "start"

Tokenize ==
    /\ pc = "start"
    /\ result' = tokenize(text)
    /\ toks' = IF result'.ok THEN result'.tokens ELSE <<>>
    /\ pc' = "done"
    /\ UNCHANGED <<text, engineVars>>

NextLex == Tokenize

SpecLex == InitLex /\ [][NextLex]_vars

-----------------------------------------------------------------------------
(* parse_pysmt applied to a text made of tokens *)

TokenChars ==
    {<<"a">>, <<"b">>, <<"!">>, <<"(">>, <<")">>, <<"&">>, <<"|">>, <<"^">>,
     <<"-", ">">>, <<"<", "-", ">">>}

(* The tokens of a list written one after the other. *)
RECURSIVE Written(_)
Written(tokenList) ==
    IF tokenList = <<>> THEN <<>>
    ELSE Head(tokenList) \o Written(Tail(tokenList))

InitParse ==
    /\ EngineUnused
    /\ \E n \in 0..MaxToks : \E tokenList \in [1..n -> TokenChars] : text = Written(tokenList)
    /\ toks = <<>>
    /\ result = NoResult
    /\ pc = "start"

ParsePysmt ==
    /\ pc = "start"
    /\ toks' = (IF tokenize(text).ok THEN tokenize(text).tokens ELSE <<>>)
    /\ result' = parse_pysmt(text)
    /\ pc' = "done"
    /\ UNCHANGED <<text, engineVars>>

NextParse == ParsePysmt

SpecParse == InitParse /\ [][NextParse]_vars

-----------------------------------------------------------------------------
(* The grammar and its fully parenthesised reading, stated on token lists   *)
(* without reference to the parsing algorithm.                              *)

OperatorTokens == {"&", "|", "^", "->", "<->"}
RightAssociative == {"->", "<->"}
Binding == ("<->" :> 1) @@ ("->" :> 2) @@ ("|" :> 3) @@ ("^" :> 4) @@ ("&" :> 5)

IsIdentifier(tok) == tok \notin OperatorTokens \cup {"!", "(", ")"}

Bad == [op |-> "bad"]

(* Parentheses opened and not closed among tokens lo..k-1. *)
Depth(tokens, lo, k) ==
    Cardinality({i \in lo..(k - 1) : tokens[i] = "("})
      - Cardinality({i \in lo..(k - 1) : tokens[i] = ")"})

(* The binary operators of tokens lo..hi outside every parenthesis. *)
TopOperators(tokens, lo, hi) ==
    {k \in lo..hi : tokens[k] \in OperatorTokens /\ Depth(tokens, lo, k) = 0}

(* Where tokens lo..hi split: at the operator that binds loosest; among     *)
(* several of it, the leftmost when it groups to the right and the          *)
(* rightmost when it groups to the left.                                    *)
SplitAt(tokens, lo, hi) ==
    LET top == TopOperators(tokens, lo, hi)
        loosest == {k \in top : \A m \in top : Binding[tokens[k]] <= Binding[tokens[m]]}
    IN CHOOSE k \in loosest :
          IF tokens[k] \in RightAssociative
          THEN \A m \in loosest : k <= m
          ELSE \A m \in loosest : k >= m

Node(op, l, r) ==
    IF l = Bad \/ r = Bad THEN Bad
    ELSE CASE op = "&" -> And(l, r)
           [] op = "|" -> Or(l, r)
           [] op = "^" -> Xor(l, r)
           [] op = "->" -> Implies(l, r)
           [] op = "<->" -> Iff(l, r)

(* The tree of tokens lo..hi read as an expression of the grammar           *)
(*   Expr := '!' Expr | '(' Expr ')' | Var | Expr op Expr                   *)
(* or Bad when they are not one.                                            *)
RECURSIVE Reading(_, _, _)
Reading(tokens, lo, hi) ==
    IF lo > hi THEN Bad
    ELSE IF TopOperators(tokens, lo, hi) # {}
    THEN LET k == SplitAt(tokens, lo, hi) IN
         Node(tokens[k], Reading(tokens, lo, k - 1), Reading(tokens, k + 1, hi))
    ELSE IF tokens[lo] = "!"
    THEN LET e == Reading(tokens, lo + 1, hi) IN IF e = Bad THEN Bad ELSE Not(e)
    ELSE IF tokens[lo] = "(" /\ tokens[hi] = ")" /\ lo < hi
    THEN Reading(tokens, lo + 1, hi - 1)
    ELSE IF lo = hi /\ IsIdentifier(tokens[lo]) THEN Symbol(tokens[lo])
    ELSE Bad

FullReading(tokens) == Reading(tokens, 1, Len(tokens))

WellFormed(tokens) == FullReading(tokens) # Bad

StripWhitespace(s) == SelectSeq(s, LAMBDA ch : ch \notin {" ", "\t", "\n"})

-----------------------------------------------------------------------------
(* Claims about the parser and the tokenizer *)

\* C8: for every well-formed token list parse_pysmt returns the tree of the
\* fully parenthesised reading: '!' binds tighter than every binary
\* operator, the binary operators bind & > ^ > | > -> > <->, the operators
\* &, |, ^ group to the left and ->, <-> to the right.
C8_PrecedenceAndAssociativity ==
    (pc = "done" /\ WellFormed(toks)) => (result.ok /\ result.node = FullReading(toks))

\* a -> b -> a is parsed as a -> (b -> a).
C8_Witness ==
    /\ pc = "done"
    /\ toks = <<"a", "->", "b", "->", "a">>
    /\ result.ok
    /\ result.node = Implies(va, Implies(vb, va))

\* C9: parse_pysmt returns a tree only for a token list the grammar
\* derives; every other token list raises a syntax error.
C9_AcceptsExactlyTheGrammar ==
    pc = "done" => (result.ok <=> WellFormed(toks))

\* C10: tokenize gives the same token list, or the same failure, as on the
\* text with every space, tab and newline removed; so a whitespace
\* character never causes a lex error.
C10_WhitespaceInsignificant ==
    pc = "done" => result = tokenize(StripWhitespace(text))

=============================================================================
